---- MODULE Spec2Model ----
\* A model of the owl query/navigation layer (owl.go) over a parsed HTML node
\* tree.  Strings are sequences of one-character strings, so that tokenising
\* (strings.Fields), the whitespace test of Text() and the concatenation of
\* FullText() are computed and not assumed.
EXTENDS Integers, Sequences, FiniteSets, TLC

VARIABLES doc, r, out, probe

vars == <<doc, r, out, probe>>

----------------------------------------------------------------------------
\* Bounds of the model.

\* Number of nodes of a document: the Document node, the root element and
\* MaxNodes - 2 further nodes.
MaxNodes == 5

\* Longest attribute value / constraint value the matcher is probed with.
MaxLen == 3

----------------------------------------------------------------------------
\* html.Node as the code reads it: kinds, nil, and the strings of the model.

NilNode == 0

DocumentNode == "Document"
ElementNode == "Element"
TextNode == "Text"
CommentNode == "Comment"
DoctypeNode == "Doctype"

\* ErrorType (iota); NoError is the nil *Error.
NoError == -1
ErrUnableToParse == 0
ErrElementNotFound == 1
ErrElementsNotFound == 2
ErrNoNextSibling == 3
ErrNoPreviousSibling == 4
ErrNoNextElementSibling == 5
ErrNoPreviousElementSibling == 6

EmptyStr == <<>>
StrA == <<"a">>
StrTitle == <<"t", "i", "t", "l", "e">>
StrId == <<"i", "d">>
StrX == <<"x">>
StrXY == <<"x", " ", "y">>
StrSpace == <<" ">>

\* unicode.IsSpace / the regexp class \s, on the characters of the model.
IsSpace(c) == c \in {" ", "\n", "\t"}

NodeIds == 1 .. MaxNodes

\* html.Attribute
Attribute(k, v) == [Key |-> k, Val |-> v]

\* The node labels documents are built from: kind, data and attribute list.
Label(t, data, attr) == [Type |-> t, Data |-> data, Attr |-> attr]

DocLabel == Label(DocumentNode, EmptyStr, <<>>)
RootLabel == Label(ElementNode, StrA, <<Attribute(StrId, StrX)>>)

Palette ==
    { Label(ElementNode, StrA, <<>>),
      Label(ElementNode, StrTitle, <<Attribute(StrId, StrXY)>>),
      Label(ElementNode, StrA, <<Attribute(StrId, StrX), Attribute(StrId, StrX)>>),
      Label(TextNode, StrA, <<>>),
      Label(TextNode, StrSpace, <<>>) }

\* Parent links of the trees html.Parse can hand over: node 1 is the Document
\* node, node 2 its only child (the root element), every other node hangs
\* below an earlier node; siblings are ordered by identifier.
ParentMaps ==
    { p \in [NodeIds -> 0 .. MaxNodes] :
        /\ p[1] = NilNode
        /\ \A i \in NodeIds \ {1} : IF i = 2 THEN p[i] = 1 ELSE p[i] \in 2 .. (i - 1) }

LabelMaps ==
    { l \in [NodeIds -> Palette \cup {DocLabel, RootLabel}] :
        /\ l[1] = DocLabel
        /\ \A i \in NodeIds \ {1} : IF i = 2 THEN l[i] = RootLabel ELSE l[i] \in Palette }

SetMin(S) == CHOOSE x \in S : \A y \in S : x <= y
SetMax(S) == CHOOSE x \in S : \A y \in S : y <= x

\* The html.Node links of the tree with parent map p and labels l.
MkDoc(p, l) ==
    LET kids(n) == { m \in NodeIds : p[m] = n }
        after(n) == { m \in NodeIds : p[m] = p[n] /\ m > n }
        before(n) == { m \in NodeIds : p[m] = p[n] /\ m < n }
    IN [ Type |-> [n \in NodeIds |-> l[n].Type],
         Data |-> [n \in NodeIds |-> l[n].Data],
         Attr |-> [n \in NodeIds |-> l[n].Attr],
         Parent |-> p,
         FirstChild |-> [n \in NodeIds |-> IF kids(n) = {} THEN NilNode ELSE SetMin(kids(n))],
         NextSibling |-> [n \in NodeIds |->
                            IF n = 1 \/ after(n) = {} THEN NilNode ELSE SetMin(after(n))],
         PrevSibling |-> [n \in NodeIds |->
                            IF n = 1 \/ before(n) = {} THEN NilNode ELSE SetMax(before(n))] ]

\* The shape of a parsed tree: only element nodes (and the Document node)
\* have children, and the parser merges adjacent text, so no text node is
\* followed by a text sibling.
Parsed(d) ==
    \A n \in NodeIds \ {1} :
        /\ d.Parent[n] # 1 => d.Type[d.Parent[n]] = ElementNode
        /\ (d.Type[n] = TextNode /\ d.NextSibling[n] # NilNode)
              => d.Type[d.NextSibling[n]] # TextNode

Docs == { d \in { MkDoc(pl[1], pl[2]) : pl \in ParentMaps \X LabelMaps } : Parsed(d) }

----------------------------------------------------------------------------
\* Query results.

\* type Root struct
Root(n, v, e) == [Node |-> n, NodeValue |-> v, Error |-> e]

\* type Roots struct
Roots(rs, len, e) == [Roots |-> rs, Len |-> len, Error |-> e]

NoRoot == Root(NilNode, EmptyStr, NoError)
NoRoots == Roots(<<>>, 0, NoError)

\* func newError; the message is not modelled, the kind is.
newError(t) == t

\* The record of the last call: the operation, its receiver and arguments, and
\* what it returned (a single result, a collection, a string, or a panic).
Call(op, recv, args, kind, root, roots, text) ==
    [ op |-> op, recv |-> recv, args |-> args, kind |-> kind,
      root |-> root, roots |-> roots, text |-> text ]

Panic(op, recv, args) == Call(op, recv, args, "panic", NoRoot, NoRoots, EmptyStr)

\* func htmlparsing, after html.Parse succeeded: skip to the first element.
RECURSIVE skipToElement(_, _)
skipToElement(d, n) ==
    IF d.Type[n] = ElementNode THEN n
    ELSE IF d.Type[n] = DocumentNode THEN skipToElement(d, d.FirstChild[n])
    ELSE IF d.Type[n] \in {DoctypeNode, CommentNode} THEN skipToElement(d, d.NextSibling[n])
    ELSE n

htmlparsing(d) ==
    LET root == skipToElement(d, 1) IN Root(root, d.Data[root], NoError)

----------------------------------------------------------------------------
\* Sibling navigation.

nextSiblingError == newError(ErrNoNextSibling)
prevSiblingError == newError(ErrNoNextSibling)
nextElementSiblingError == newError(ErrNoNextSibling)
prevElementSiblingError == newError(ErrNoNextSibling)

\* func (r *Root) FindNextSibling
FindNextSiblingOf(d, n) ==
    LET nextSibling == d.NextSibling[n] IN
    IF nextSibling = NilNode THEN Root(NilNode, EmptyStr, nextSiblingError)
    ELSE Root(nextSibling, d.Data[nextSibling], NoError)

\* func (r *Root) FindPrevSibling
FindPrevSiblingOf(d, n) ==
    LET prevSibling == d.PrevSibling[n] IN
    IF prevSibling = NilNode THEN Root(NilNode, EmptyStr, prevSiblingError)
    ELSE Root(prevSibling, d.Data[prevSibling], NoError)

\* func (r Root) FindNextElementSibling
RECURSIVE FindNextElementSiblingOf(_, _)
FindNextElementSiblingOf(d, n) ==
    LET nextSibling == d.NextSibling[n] IN
    IF nextSibling = NilNode THEN Root(NilNode, EmptyStr, nextElementSiblingError)
    ELSE IF d.Type[nextSibling] = ElementNode
         THEN Root(nextSibling, d.Data[nextSibling], NoError)
    ELSE FindNextElementSiblingOf(d, nextSibling)

\* func (r Root) FindPrevElementSibling
RECURSIVE FindPrevElementSiblingOf(_, _)
FindPrevElementSiblingOf(d, n) ==
    LET prevSibling == d.PrevSibling[n] IN
    IF prevSibling = NilNode THEN Root(NilNode, EmptyStr, prevElementSiblingError)
    ELSE IF d.Type[prevSibling] = ElementNode
         THEN Root(prevSibling, d.Data[prevSibling], NoError)
    ELSE FindPrevElementSiblingOf(d, prevSibling)

----------------------------------------------------------------------------
\* Matcher.

\* func matchElementName
matchElementName(d, n, name) == name = EmptyStr \/ name = d.Data[n]

\* func attributeAndValueEquals
attributeAndValueEquals(attr, attribute, value) ==
    attr.Key = attribute /\ attr.Val = value

\* strings.Fields: the maximal runs of non-space characters, left to right.
RECURSIVE FieldsFrom(_, _, _)
FieldsFrom(s, i, cur) ==
    IF i > Len(s) THEN (IF cur = <<>> THEN <<>> ELSE <<cur>>)
    ELSE IF IsSpace(s[i])
         THEN (IF cur = <<>> THEN <<>> ELSE <<cur>>) \o FieldsFrom(s, i + 1, <<>>)
    ELSE FieldsFrom(s, i + 1, Append(cur, s[i]))

Fields(s) == FieldsFrom(s, 1, <<>>)

\* A loose comparison that looks for the value anywhere in the attribute value
\* instead of among its fields.
attributeContainsSubstring(attr, attribute, value) ==
    /\ attr.Key = attribute
    /\ \E i \in 1 .. (Len(attr.Val) + 1) : \E j \in (i - 1) .. Len(attr.Val) :
          SubSeq(attr.Val, i, j) = value

\* func attributeContainsValue
attributeContainsValue(attr, attribute, value) ==
    /\ attr.Key = attribute
    /\ \E i \in 1 .. Len(Fields(attr.Val)) : Fields(attr.Val)[i] = value

\* The comparison of lines 347-348 / 379-380, args[1] and args[2] of the code
\* being args[2] and args[3] here.
attrQualifies(attr, args, strict) ==
    \/ strict /\ attributeAndValueEquals(attr, args[2], args[3])
    \/ ~strict /\ attributeContainsValue(attr, args[2], args[3])

\* What testing node n against args does (the body of "if uni" in findOnce and
\* findAllofem): the number of times the node is reported, or a panic when
\* args[0] or args[2] is read past the end of args.
testNode(d, n, args, strict) ==
    IF d.Type[n] # ElementNode THEN [hits |-> 0, panic |-> FALSE]
    ELSE IF Len(args) = 0 THEN [hits |-> 0, panic |-> TRUE]
    ELSE IF ~matchElementName(d, n, args[1]) THEN [hits |-> 0, panic |-> FALSE]
    ELSE IF Len(args) > 1 /\ Len(args) < 4
         THEN IF Len(d.Attr[n]) = 0 THEN [hits |-> 0, panic |-> FALSE]
              ELSE IF Len(args) < 3 THEN [hits |-> 0, panic |-> TRUE]
              ELSE [hits |-> Len(SelectSeq(d.Attr[n], LAMBDA a : attrQualifies(a, args, strict))),
                    panic |-> FALSE]
    ELSE IF Len(args) = 1 THEN [hits |-> 1, panic |-> FALSE]
    ELSE [hits |-> 0, panic |-> FALSE]

----------------------------------------------------------------------------
\* Traversal engine.

\* func findOnce: [node, ok] as the code returns them, or panic.
RECURSIVE findOnce(_, _, _, _, _)
RECURSIVE findOnceChildren(_, _, _, _)
findOnce(d, n, args, uni, strict) ==
    IF n = NilNode THEN [node |-> NilNode, ok |-> FALSE, panic |-> TRUE]
    ELSE LET t == IF uni THEN testNode(d, n, args, strict)
                  ELSE [hits |-> 0, panic |-> FALSE]
         IN IF t.panic THEN [node |-> NilNode, ok |-> FALSE, panic |-> TRUE]
            ELSE IF t.hits > 0 THEN [node |-> n, ok |-> TRUE, panic |-> FALSE]
            ELSE findOnceChildren(d, d.FirstChild[n], args, strict)

\* The loop "for c := n.FirstChild; c != nil; c = c.NextSibling" of findOnce.
findOnceChildren(d, c, args, strict) ==
    IF c = NilNode THEN [node |-> NilNode, ok |-> FALSE, panic |-> FALSE]
    ELSE LET pq == findOnce(d, c, args, TRUE, strict)
         IN IF pq.ok \/ pq.panic THEN pq
            ELSE findOnceChildren(d, d.NextSibling[c], args, strict)

\* func findAllofem: nodeLinks, or panic.
RECURSIVE findAllF(_, _, _, _, _)
RECURSIVE findAllChildren(_, _, _, _)
findAllF(d, n, args, uni, strict) ==
    LET t == IF uni THEN testNode(d, n, args, strict)
             ELSE [hits |-> 0, panic |-> FALSE]
        below == findAllChildren(d, d.FirstChild[n], args, strict)
    IN IF t.panic THEN [nodes |-> <<>>, panic |-> TRUE]
       ELSE [nodes |-> [i \in 1 .. t.hits |-> n] \o below.nodes, panic |-> below.panic]

findAllChildren(d, c, args, strict) ==
    IF c = NilNode THEN [nodes |-> <<>>, panic |-> FALSE]
    ELSE LET here == findAllF(d, c, args, TRUE, strict)
         IN IF here.panic THEN here
            ELSE LET rest == findAllChildren(d, d.NextSibling[c], args, strict)
                 IN [nodes |-> here.nodes \o rest.nodes, panic |-> rest.panic]

findAllofem(d, n, args, strict) ==
    IF n = NilNode THEN [nodes |-> <<>>, panic |-> TRUE]
    ELSE findAllF(d, n, args, FALSE, strict)

\* A search that also tests the node it starts from.
findStartUniTested == TRUE

\* The uni argument Find, FindStrict and Title pass to findOnce.
findStartUni == FALSE

----------------------------------------------------------------------------
\* Text extraction and children.

\* The regexp ^\s+$ of Text().
OnlySpace(s) == Len(s) > 0 /\ \A i \in 1 .. Len(s) : IsSpace(s[i])

\* The closure f of Text(), k being r.Node.FirstChild, which f never
\* reassigns.  The two inner calls f(n) (lines 238 and 246) are made for a
\* later sibling and their results are dropped, so they add nothing to what f
\* returns.
textF(d, k, n) ==
    LET skip == n # NilNode /\ d.Type[n] # TextNode
        n1 == IF skip THEN d.NextSibling[n] ELSE n
    IN IF skip /\ n1 = NilNode THEN EmptyStr
       ELSE IF k # NilNode
            THEN IF OnlySpace(d.Data[k]) /\ d.NextSibling[n1] = NilNode THEN EmptyStr
                 ELSE d.Data[k]
       ELSE EmptyStr

\* func (r *Root) Text
TextOf(d, n) == textF(d, d.FirstChild[n], d.FirstChild[n])

\* The closure f of FullText(), as the string it writes to buf.
RECURSIVE fullTextF(_, _)
fullTextF(d, n) ==
    IF n = NilNode THEN EmptyStr
    ELSE (IF d.Type[n] = TextNode THEN d.Data[n] ELSE EmptyStr)
         \o (IF d.Type[n] = ElementNode THEN fullTextF(d, d.FirstChild[n]) ELSE EmptyStr)
         \o (IF d.NextSibling[n] # NilNode THEN fullTextF(d, d.NextSibling[n]) ELSE EmptyStr)

\* A FullText that starts at the node itself and so runs on into its siblings.
FullTextFromNode(d, n) == fullTextF(d, n)

\* func (r Root) FullText
FullTextOf(d, n) == fullTextF(d, d.FirstChild[n])

\* The loop of Children(): the nodes from childNode on, as Roots.
RECURSIVE childRoots(_, _)
childRoots(d, childNode) ==
    IF childNode = NilNode THEN <<>>
    ELSE <<Root(childNode, d.Data[childNode], NoError)>>
         \o childRoots(d, d.NextSibling[childNode])

\* The Error field Children() leaves in its result.
childrenError(rootNode) == NoError

\* func (r Root) Children
ChildrenOf(d, n) ==
    LET rootNode == childRoots(d, d.FirstChild[n])
    IN Roots(rootNode, Len(rootNode), childrenError(rootNode))

\* The error kinds of the search operations.
findError == ErrElementNotFound
findAllError == newError(ErrElementsNotFound)
findAllStrictError == newError(ErrElementNotFound)

\* A failed search that returns neither a node nor an error.
singleResultWithoutError(d, pq) ==
    IF ~pq.ok THEN NoRoot
    ELSE Root(pq.node, d.Data[pq.node], NoError)

\* Find, FindStrict and Title after findOnce returned pq.
singleResult(d, pq) ==
    IF ~pq.ok THEN Root(NilNode, EmptyStr, findError)
    ELSE Root(pq.node, d.Data[pq.node], NoError)

\* FindAll and FindAllStrict after findAllofem returned temp.
collectionResult(d, temp, err) ==
    IF Len(temp) = 0 THEN Roots(<<>>, 0, err)
    ELSE Roots([i \in 1 .. Len(temp) |-> Root(temp[i], d.Data[temp[i]], NoError)],
               Len(temp), NoError)

----------------------------------------------------------------------------
\* The calls a client makes.  r is the single Query Result the client holds,
\* the receiver of its next call; out is what the last call returned.  After a
\* call the client either keeps its receiver (Keep) or goes on from the single
\* result it got (Chain), as in HtmlRoot.Find("div").Find("div").  A Go panic
\* ends the run.

\* The argument lists (args ...string) the searches are called with: a tag, a
\* tag with one attribute name and value, and two malformed lists.
Queries ==
    { <<EmptyStr>>, <<StrA>>, <<StrTitle>>,
      <<EmptyStr, StrId, StrX>>, <<StrA, StrId, StrX>>, <<StrTitle, StrId, StrXY>>,
      <<StrA, StrId>>, <<StrA, StrId, StrX, StrId, StrX>> }

ProbeIdle ==
    [ stage |-> "idle", attr |-> Attribute(EmptyStr, EmptyStr), attribute |-> EmptyStr,
      value |-> EmptyStr, node |-> NilNode, tag |-> EmptyStr,
      loose |-> FALSE, strict |-> FALSE ]

Idle == Call("", NilNode, <<>>, "none", NoRoot, NoRoots, EmptyStr)

\* The client is about to make a call.
Alive == out.kind = "none"

Returned(op, args, res) ==
    /\ out' = Call(op, r.Node, args, "root", res, NoRoots, EmptyStr)
    /\ r' = r

Panicked(op, args) ==
    /\ out' = Panic(op, r.Node, args)
    /\ r' = r

Collected(op, args, res) ==
    /\ out' = Call(op, r.Node, args, "roots", NoRoot, res, EmptyStr)
    /\ r' = r

Extracted(op, text) ==
    /\ out' = Call(op, r.Node, <<>>, "text", NoRoot, NoRoots, text)
    /\ r' = r

\* func HTMLParseFromString
HTMLParseFromString ==
    /\ Alive
    /\ r' = r
    /\ out' = Call("HTMLParse", NilNode, <<>>, "root", htmlparsing(doc), NoRoots, EmptyStr)
    /\ UNCHANGED <<doc, probe>>

\* func htmlparsing with the outcome of html.Parse: a read error of the
\* io.Reader, or the parsed tree.
htmlparsingOf(d, readErr) ==
    IF readErr THEN Root(NilNode, EmptyStr, newError(ErrUnableToParse))
    ELSE htmlparsing(d)

\* func HTMLParse, on a reader that may fail
HTMLParse(readErr) ==
    /\ Alive
    /\ r' = r
    /\ out' = Call("HTMLParse", NilNode, <<>>, "root", htmlparsingOf(doc, readErr),
                   NoRoots, EmptyStr)
    /\ UNCHANGED <<doc, probe>>

\* func (r *Root) Find
Find(args) ==
    /\ Alive
    /\ LET pq == findOnce(doc, r.Node, args, findStartUni, FALSE)
       IN IF pq.panic THEN Panicked("Find", args)
          ELSE Returned("Find", args, singleResult(doc, pq))
    /\ UNCHANGED <<doc, probe>>

\* func (r *Root) FindStrict
FindStrict(args) ==
    /\ Alive
    /\ LET pq == findOnce(doc, r.Node, args, findStartUni, TRUE)
       IN IF pq.panic THEN Panicked("FindStrict", args)
          ELSE Returned("FindStrict", args, singleResult(doc, pq))
    /\ UNCHANGED <<doc, probe>>

\* func (r *Root) Title
Title ==
    /\ Alive
    /\ LET re == findOnce(doc, r.Node, <<StrTitle>>, findStartUni, TRUE)
       IN IF re.panic THEN Panicked("Title", <<>>)
          ELSE Returned("Title", <<>>, singleResult(doc, re))
    /\ UNCHANGED <<doc, probe>>

\* func (r *Root) FindNextSibling
FindNextSibling ==
    /\ Alive
    /\ IF r.Node = NilNode THEN Panicked("FindNextSibling", <<>>)
       ELSE Returned("FindNextSibling", <<>>, FindNextSiblingOf(doc, r.Node))
    /\ UNCHANGED <<doc, probe>>

\* func (r *Root) FindPrevSibling
FindPrevSibling ==
    /\ Alive
    /\ IF r.Node = NilNode THEN Panicked("FindPrevSibling", <<>>)
       ELSE Returned("FindPrevSibling", <<>>, FindPrevSiblingOf(doc, r.Node))
    /\ UNCHANGED <<doc, probe>>

\* func (r Root) FindNextElementSibling
FindNextElementSibling ==
    /\ Alive
    /\ IF r.Node = NilNode THEN Panicked("FindNextElementSibling", <<>>)
       ELSE Returned("FindNextElementSibling", <<>>, FindNextElementSiblingOf(doc, r.Node))
    /\ UNCHANGED <<doc, probe>>

\* func (r Root) FindPrevElementSibling
FindPrevElementSibling ==
    /\ Alive
    /\ IF r.Node = NilNode THEN Panicked("FindPrevElementSibling", <<>>)
       ELSE Returned("FindPrevElementSibling", <<>>, FindPrevElementSiblingOf(doc, r.Node))
    /\ UNCHANGED <<doc, probe>>

\* func (r Root) FullText
FullText ==
    /\ Alive
    /\ IF r.Node = NilNode THEN Panicked("FullText", <<>>)
       ELSE Extracted("FullText", FullTextOf(doc, r.Node))
    /\ UNCHANGED <<doc, probe>>

\* func (r *Root) Text
Text ==
    /\ Alive
    /\ IF r.Node = NilNode THEN Panicked("Text", <<>>)
       ELSE Extracted("Text", TextOf(doc, r.Node))
    /\ UNCHANGED <<doc, probe>>

\* func (r *Root) FindAll
FindAll(args) ==
    /\ Alive
    /\ LET temp == findAllofem(doc, r.Node, args, FALSE)
       IN IF temp.panic THEN Panicked("FindAll", args)
          ELSE Collected("FindAll", args, collectionResult(doc, temp.nodes, findAllError))
    /\ UNCHANGED <<doc, probe>>

\* func (r Root) FindAllStrict; its error message reads args[0].
FindAllStrict(args) ==
    /\ Alive
    /\ LET temp == findAllofem(doc, r.Node, args, TRUE)
       IN IF temp.panic \/ (Len(temp.nodes) = 0 /\ Len(args) = 0)
          THEN Panicked("FindAllStrict", args)
          ELSE Collected("FindAllStrict", args,
                         collectionResult(doc, temp.nodes, findAllStrictError))
    /\ UNCHANGED <<doc, probe>>

\* func (r Root) Children
Children ==
    /\ Alive
    /\ IF r.Node = NilNode THEN Panicked("Children", <<>>)
       ELSE Collected("Children", <<>>, ChildrenOf(doc, r.Node))
    /\ UNCHANGED <<doc, probe>>

\* func (rs Roots) First, on the collection returned last
First ==
    /\ out.kind = "roots"
    /\ IF Len(out.roots.Roots) = 0 THEN Panicked("First", <<>>)
       ELSE Returned("First", <<>>, out.roots.Roots[1])
    /\ UNCHANGED <<doc, probe>>

\* func (rs Roots) Last, on the collection returned last
Last ==
    /\ out.kind = "roots"
    /\ IF out.roots.Len - 1 \notin 0 .. (Len(out.roots.Roots) - 1) THEN Panicked("Last", <<>>)
       ELSE Returned("Last", <<>>, out.roots.Roots[out.roots.Len])
    /\ UNCHANGED <<doc, probe>>

\* The client goes on from the single result the last call returned.
Chain ==
    /\ out.kind = "root"
    /\ r' = out.root
    /\ out' = Idle
    /\ UNCHANGED <<doc, probe>>

\* The client keeps its receiver and drops what the last call returned.
Keep ==
    /\ out.kind \in {"root", "roots", "text"}
    /\ out.op # "HTMLParse"
    /\ out' = Idle
    /\ r' = r
    /\ UNCHANGED <<doc, probe>>

Init ==
    /\ doc \in Docs
    /\ r = NoRoot
    /\ out = Call("HTMLParse", NilNode, <<>>, "root", htmlparsing(doc), NoRoots, EmptyStr)
    /\ probe = ProbeIdle

Next ==
    \/ HTMLParseFromString
    \/ \E readErr \in BOOLEAN : HTMLParse(readErr)
    \/ \E args \in Queries : Find(args)
    \/ \E args \in Queries : FindStrict(args)
    \/ Title
    \/ FindNextSibling
    \/ FindPrevSibling
    \/ FindNextElementSibling
    \/ FindPrevElementSibling
    \/ FullText
    \/ Text
    \/ \E args \in Queries : FindAll(args)
    \/ \E args \in Queries : FindAllStrict(args)
    \/ Children
    \/ First
    \/ Last
    \/ Chain
    \/ Keep

Spec == Init /\ [][Next]_vars

----------------------------------------------------------------------------
\* The matcher on its own: Init draws an attribute pair and a constraint, or
\* a node and a tag constraint, and the actions apply the matcher to them in
\* loose and in strict mode.

Alphabet == {"x", "y", " "}

Strings == UNION { [1 .. k -> Alphabet] : k \in 0 .. MaxLen }

Names == {StrId, StrA}

\* A document with an element of each tag, a text node and attributes.
ProbeDoc ==
    MkDoc([n \in NodeIds |-> IF n = 1 THEN NilNode ELSE IF n = 2 THEN 1 ELSE 2],
          [n \in NodeIds |->
             IF n = 1 THEN DocLabel
             ELSE IF n = 2 THEN RootLabel
             ELSE IF n = 3 THEN Label(ElementNode, StrTitle, <<Attribute(StrId, StrXY)>>)
             ELSE IF n = 4 THEN Label(TextNode, StrA, <<>>)
             ELSE Label(ElementNode, StrA, <<Attribute(StrId, StrX), Attribute(StrId, StrX)>>)])

AttrProbes ==
    { [ProbeIdle EXCEPT !.stage = "attr", !.attr = Attribute(k, v),
                        !.attribute = a, !.value = w] :
        k \in Names, v \in Strings, a \in Names, w \in Strings }

TagProbes ==
    { [ProbeIdle EXCEPT !.stage = "tag", !.node = n, !.tag = t] :
        n \in NodeIds \ {1}, t \in {EmptyStr, StrA, StrTitle} }

InitMatch ==
    /\ doc = ProbeDoc
    /\ r = NoRoot
    /\ out = Idle
    /\ probe \in AttrProbes \cup TagProbes

\* attributeContainsValue and attributeAndValueEquals on the probe.
CompareAttr ==
    /\ probe.stage = "attr"
    /\ probe' = [probe EXCEPT
                   !.stage = "attrDone",
                   !.loose = attributeContainsValue(probe.attr, probe.attribute, probe.value),
                   !.strict = attributeAndValueEquals(probe.attr, probe.attribute, probe.value)]
    /\ UNCHANGED <<doc, r, out>>

\* The test of a node against a lone tag constraint, loose and strict.
CompareTag ==
    /\ probe.stage = "tag"
    /\ probe' = [probe EXCEPT
                   !.stage = "tagDone",
                   !.loose = testNode(doc, probe.node, <<probe.tag>>, FALSE).hits > 0,
                   !.strict = testNode(doc, probe.node, <<probe.tag>>, TRUE).hits > 0]
    /\ UNCHANGED <<doc, r, out>>

NextMatch == CompareAttr \/ CompareTag

SpecMatch == InitMatch /\ [][NextMatch]_vars

----------------------------------------------------------------------------
\* What the specification says, stated on the tree without the traversal:
\* descendants by parent links, document order by the position of the
\* branches below the lowest common ancestor.

RECURSIVE Ancestors(_, _)
Ancestors(d, n) ==
    IF d.Parent[n] = NilNode THEN {}
    ELSE {d.Parent[n]} \cup Ancestors(d, d.Parent[n])

ProperDescendants(d, start) == { n \in NodeIds : start \in Ancestors(d, n) }

\* Position of n among the children of its parent.
RECURSIVE SiblingIndex(_, _)
SiblingIndex(d, n) ==
    IF d.PrevSibling[n] = NilNode THEN 1 ELSE 1 + SiblingIndex(d, d.PrevSibling[n])

\* The siblings of n after it (dir = 1) or before it (dir = -1).
SiblingsToward(d, n, dir) ==
    { s \in NodeIds :
        /\ d.Parent[s] = d.Parent[n]
        /\ d.Parent[n] # NilNode
        /\ (SiblingIndex(d, s) - SiblingIndex(d, n)) * dir > 0 }

\* a comes before b in pre-order document order.
Precedes(d, a, b) ==
    /\ a # b
    /\ \/ a \in Ancestors(d, b)
       \/ \E x \in Ancestors(d, a) \cup {a} : \E y \in Ancestors(d, b) \cup {b} :
            /\ x # y
            /\ d.Parent[x] = d.Parent[y]
            /\ SiblingIndex(d, x) < SiblingIndex(d, y)

\* The nodes of S in document order.
InDocumentOrder(d, S) ==
    [i \in 1 .. Cardinality(S) |->
        CHOOSE n \in S : Cardinality({m \in S : Precedes(d, m, n)}) = i - 1]

\* v is one of the whitespace-separated tokens of s.
IsToken(v, s) ==
    /\ Len(v) > 0
    /\ \A i \in 1 .. Len(v) : ~IsSpace(v[i])
    /\ \E i \in 1 .. Len(s) :
         /\ i + Len(v) - 1 <= Len(s)
         /\ SubSeq(s, i, i + Len(v) - 1) = v
         /\ (i = 1 \/ IsSpace(s[i - 1]))
         /\ (i + Len(v) - 1 = Len(s) \/ IsSpace(s[i + Len(v)]))

\* A query is a tag, or a tag with one attribute name and value.
WellFormed(args) == Len(args) \in {1, 3}

Qualifies(attr, name, value, strict) ==
    /\ attr.Key = name
    /\ IF strict THEN attr.Val = value ELSE IsToken(value, attr.Val)

\* Node n is a matching element of the query args.
Matching(d, n, args, strict) ==
    /\ d.Type[n] = ElementNode
    /\ (args[1] = EmptyStr \/ d.Data[n] = args[1])
    /\ Len(args) = 3 =>
         \E i \in 1 .. Len(d.Attr[n]) : Qualifies(d.Attr[n][i], args[2], args[3], strict)

MatchSet(d, start, args, strict) ==
    { n \in ProperDescendants(d, start) : Matching(d, n, args, strict) }

SingleSearch == {"Find", "FindStrict"}
CollectionSearch == {"FindAll", "FindAllStrict"}
StrictSearch == {"FindStrict", "FindAllStrict"}

\* The matching descendants of the last search call.
LastMatches == MatchSet(doc, out.recv, out.args, out.op \in StrictSearch)

\* The call returned last was a well-formed search from a node.
SearchedFromNode(ops) ==
    /\ out.op \in ops
    /\ out.recv # NilNode
    /\ WellFormed(out.args)

RECURSIVE Concat(_)
Concat(ss) == IF ss = <<>> THEN EmptyStr ELSE Head(ss) \o Concat(Tail(ss))

----------------------------------------------------------------------------
\* C1: Find and FindStrict return the matching element that is first in
\* pre-order document order among the proper descendants of the starting node
\* (never the starting node itself), and no node when there is none.
FindReturnsFirstInDocumentOrder ==
    SearchedFromNode(SingleSearch) =>
        /\ out.kind = "root"
        /\ IF LastMatches = {} THEN out.root.Node = NilNode
           ELSE /\ out.root.Node \in LastMatches
                /\ out.root.Node # out.recv
                /\ \A m \in LastMatches \ {out.root.Node} : Precedes(doc, out.root.Node, m)

\* C1 witness: an attribute search from a node that itself satisfies the
\* query returned a descendant that another match precedes by identifier but
\* follows in document order.
FindWitness ==
    /\ SearchedFromNode(SingleSearch)
    /\ Len(out.args) = 3
    /\ Matching(doc, out.recv, out.args, out.op \in StrictSearch)
    /\ out.root.Node # NilNode
    /\ \E m \in LastMatches : m < out.root.Node

\* C2: FindAll and FindAllStrict return exactly the matching descendants, in
\* document order, each once, and Len is their number.
FindAllReturnsEachMatchOnce ==
    (SearchedFromNode(CollectionSearch) /\ out.kind = "roots") =>
        /\ [i \in 1 .. Len(out.roots.Roots) |-> out.roots.Roots[i].Node]
             = InDocumentOrder(doc, LastMatches)
        /\ out.roots.Len = Cardinality(LastMatches)

\* C3: loose comparison holds iff the names are equal and the constraint value
\* is one of the whitespace-separated tokens of the attribute value; strict
\* comparison holds iff the names are equal and the whole values are equal;
\* a lone tag constraint matches the same nodes in both modes, the elements
\* whose tag it equals or all elements when it is empty.
AttributeComparison ==
    /\ probe.stage = "attrDone" =>
         /\ probe.loose <=> (probe.attr.Key = probe.attribute
                             /\ IsToken(probe.value, probe.attr.Val))
         /\ probe.strict <=> (probe.attr.Key = probe.attribute
                              /\ probe.attr.Val = probe.value)
    /\ probe.stage = "tagDone" =>
         /\ probe.loose = probe.strict
         /\ probe.loose <=> (doc.Type[probe.node] = ElementNode
                             /\ probe.tag \in {EmptyStr, doc.Data[probe.node]})

\* C3 witness: the loose comparison accepted a value that is a proper token of
\* a longer attribute value, which the strict comparison rejected.
AttributeComparisonWitness ==
    /\ probe.stage = "attrDone"
    /\ probe.loose
    /\ ~probe.strict
    /\ Len(probe.attr.Val) > Len(probe.value)

\* C4: a search called on a result that carries an error returns a result
\* carrying that same error, without a panic.
SearchOnErrorPropagates ==
    (out.op \in SingleSearch \cup CollectionSearch /\ r.Error # NoError) =>
        /\ out.kind # "panic"
        /\ out.kind = "root" => out.root.Error = r.Error
        /\ out.kind = "roots" => out.roots.Error = r.Error

\* The content of the first direct child that is a text node and not purely
\* whitespace, or the empty string.
FirstTextChild(d, n) ==
    LET kids == { c \in NodeIds : d.Parent[c] = n /\ d.Type[c] = TextNode
                                  /\ ~OnlySpace(d.Data[c]) }
    IN IF kids = {} THEN EmptyStr
       ELSE d.Data[CHOOSE c \in kids : \A o \in kids : SiblingIndex(d, c) <= SiblingIndex(d, o)]

\* C5: Text() returns the content of the first direct child that is a text
\* node whose content is not purely whitespace, and the empty string when
\* there is none.
TextReturnsFirstTextChild ==
    (out.op = "Text" /\ out.kind = "text") => out.text = FirstTextChild(doc, out.recv)

\* C6: FullText() returns the concatenation, without separators, of the
\* content of the text nodes that are proper descendants of the node, in
\* document order, and nothing else.
FullTextConcatenatesDescendants ==
    (out.op = "FullText" /\ out.kind = "text") =>
        LET texts == InDocumentOrder(doc,
                        { n \in ProperDescendants(doc, out.recv) : doc.Type[n] = TextNode })
        IN out.text = Concat([i \in 1 .. Len(texts) |-> doc.Data[texts[i]]])

\* C6 witness: FullText on a node that holds text below it and is followed
\* by a sibling with a different text, the sibling having the smaller
\* identifier although it comes later in the document.
FullTextWitness ==
    /\ out.op = "FullText"
    /\ out.kind = "text"
    /\ Len(out.text) >= 1
    /\ \E t \in ProperDescendants(doc, out.recv) :
         \E s \in SiblingsToward(doc, out.recv, 1) :
            /\ doc.Type[t] = TextNode /\ doc.Type[s] = TextNode
            /\ doc.Data[t] # doc.Data[s]
            /\ s < t

\* C7: Find and FindStrict fail with ElementNotFound exactly when no
\* descendant matches, FindAll and FindAllStrict fail with ElementsNotFound
\* exactly when their sequence is empty, and otherwise there is no error.
SearchErrorKinds ==
    /\ (SearchedFromNode(SingleSearch) /\ out.kind = "root") =>
         out.root.Error = IF LastMatches = {} THEN ErrElementNotFound ELSE NoError
    /\ (SearchedFromNode(CollectionSearch) /\ out.kind = "roots") =>
         out.roots.Error = IF Len(out.roots.Roots) = 0 THEN ErrElementsNotFound ELSE NoError

\* The member of S nearest to n in sibling order.
NearestSibling(d, n, S) ==
    CHOOSE s \in S : \A o \in S :
        (SiblingIndex(d, s) - SiblingIndex(d, n)) * (SiblingIndex(d, s) - SiblingIndex(d, n))
            <= (SiblingIndex(d, o) - SiblingIndex(d, n)) * (SiblingIndex(d, o) - SiblingIndex(d, n))

\* The last call returned the nearest member of S, or failed with err when S
\* is empty.
ReturnedNearest(S, err) ==
    IF S = {} THEN out.root.Node = NilNode /\ out.root.Error = err
    ELSE out.root.Node = NearestSibling(doc, out.recv, S) /\ out.root.Error = NoError

ElementsOf(S) == { s \in S : doc.Type[s] = ElementNode }

\* C8: FindNextElementSibling (FindPrevElementSibling) returns the nearest
\* following (preceding) sibling that is an element, and fails with
\* NoNextElementSibling (NoPreviousElementSibling) when there is none.
ElementSiblingNavigation ==
    /\ (out.op = "FindNextElementSibling" /\ out.recv # NilNode) =>
         /\ out.kind = "root"
         /\ ReturnedNearest(ElementsOf(SiblingsToward(doc, out.recv, 1)),
                            ErrNoNextElementSibling)
    /\ (out.op = "FindPrevElementSibling" /\ out.recv # NilNode) =>
         /\ out.kind = "root"
         /\ ReturnedNearest(ElementsOf(SiblingsToward(doc, out.recv, -1)),
                            ErrNoPreviousElementSibling)

\* C9: FindNextSibling (FindPrevSibling) returns the immediate next
\* (previous) sibling whatever its kind, and fails with NoNextSibling
\* (NoPreviousSibling) when it is absent.
SiblingNavigation ==
    /\ (out.op = "FindNextSibling" /\ out.recv # NilNode) =>
         /\ out.kind = "root"
         /\ ReturnedNearest(SiblingsToward(doc, out.recv, 1), ErrNoNextSibling)
    /\ (out.op = "FindPrevSibling" /\ out.recv # NilNode) =>
         /\ out.kind = "root"
         /\ ReturnedNearest(SiblingsToward(doc, out.recv, -1), ErrNoPreviousSibling)

\* C10: a collection returned by FindAll, FindAllStrict or Children carries
\* an error if and only if its sequence of results is empty.
CollectionErrorIffEmpty ==
    (out.op \in CollectionSearch \cup {"Children"} /\ out.kind = "roots") =>
        (out.roots.Error # NoError <=> Len(out.roots.Roots) = 0)

\* The error kinds a search reports when it finds nothing.
NotFoundKinds == {ErrElementNotFound, ErrElementsNotFound}

\* C11: a search whose arguments are neither a tag nor a tag with one
\* attribute name and value is rejected with a malformed-query error: it
\* returns no match, no plain not-found, and does not panic.
MalformedQueryRejected ==
    (/\ out.op \in SingleSearch \cup CollectionSearch
     /\ out.recv # NilNode
     /\ ~WellFormed(out.args)) =>
        /\ out.kind # "panic"
        /\ out.kind = "root" =>
             /\ out.root.Node = NilNode
             /\ out.root.Error \notin NotFoundKinds \cup {NoError}
        /\ out.kind = "roots" =>
             /\ Len(out.roots.Roots) = 0
             /\ out.roots.Error \notin NotFoundKinds \cup {NoError}

\* A single result holds exactly one of a node and an error, and on success
\* its NodeValue is the data of its node.
OneOfNodeOrError(root) ==
    /\ (root.Node = NilNode) # (root.Error = NoError)
    /\ root.Node # NilNode => root.NodeValue = doc.Data[root.Node]

\* C12: every single result returned by an operation (HTMLParse, Find,
\* FindStrict, Title, the four sibling operations) and every member of a
\* returned collection holds exactly one of a node reference and an error,
\* and on success its NodeValue equals the data of the node it references.
ResultsHoldNodeOrError ==
    /\ out.kind = "root" => OneOfNodeOrError(out.root)
    /\ out.kind = "roots" =>
         \A i \in 1 .. Len(out.roots.Roots) : OneOfNodeOrError(out.roots.Roots[i])

\* C12 witness: a search started from a result obtained earlier, which holds
\* a node below the root, failed and returned an error without a node.
ResultsWitness ==
    /\ out.op \in SingleSearch
    /\ out.kind = "root"
    /\ r.Node = out.recv
    /\ r.Node > 2
    /\ OneOfNodeOrError(r)
    /\ out.root.Node = NilNode
    /\ out.root.Error = ErrElementNotFound

====
